---- MODULE Spec2Model ----
(***************************************************************************)
(* A model of AVX2Operations.cpp: the exported function PerformHeavyLoad,  *)
(* which sets a 256-bit register to eight 32-bit lanes of 1 and adds a     *)
(* vector of ones to it 1,000,000,000 times.                               *)
(*                                                                         *)
(* Representation.  TLC's integers are 32-bit signed, so a lane is held as *)
(* the signed reading of its 32 bits (the "epi32" reading): the bit        *)
(* pattern with unsigned value u is held as u when u < 2^31 and as         *)
(* u - 2^32 otherwise.  0xFFFFFFFF (unsigned 2^32 - 1) is -1 and           *)
(* 0x80000000 is INT_MIN.  Hi16 and Lo16 give the two 16-bit halves of the *)
(* bit pattern, which is how the unsigned value is spoken of.              *)
(*                                                                         *)
(* Granularity.  One LoopIter step is one iteration of the for loop.  A    *)
(* run of 10^9 single steps is beyond an explicit-state search, so away    *)
(* from the first Head iterations and the last Tail (or so) iterations the *)
(* model takes the iterations in runs: one LoopSkip step is s consecutive  *)
(* iterations, all of which pass the loop test, composed into one step     *)
(* (s applications of "add 1 to every lane, i++" are "add s to every lane, *)
(* i += s"; IterateBody and SkipIsIteration check that composition on      *)
(* short runs).  Every state of the model is a loop-head state of the      *)
(* program.                                                                *)
(***************************************************************************)
EXTENDS Integers, FiniteSets, TLC

VARIABLES pc, i, vec, adds, outside

vars == <<pc, i, vec, adds, outside>>

-----------------------------------------------------------------------------
(* Bounds of the model *)

\* single iterations explored at the start of the loop
Head == 40

\* single iterations (at least) explored at the end of the loop
Tail == 40

\* the runs of LoopSkip are of Stride, Stride^2, ... iterations
Stride == 10

\* cells of the memory outside the function
NumCells == 2

-----------------------------------------------------------------------------
(* The machine *)

\* __m256i read as epi32: 8 lanes
NumLanes == 8

\* lanes are 32 bits wide, and so is int
INT_MAX == 2147483647

INT_MIN == -2147483647 - 1

\* a bug: a loop bound of two billion
LoopCountTwice == 2 * 1000000000

\* the loop bound of the for statement
LoopCount == 1000000000

Lanes == 1..NumLanes

Cells == 1..NumCells

\* the low and the high 16 bits of a 32-bit pattern
Lo16(v) == v % 65536

Hi16(v) == (v \div 65536) % 65536

\* 32-bit addition: the low 32 bits of x + y, in the signed reading
Add32(x, y) ==
    IF y > 0 /\ x > INT_MAX - y THEN (x + INT_MIN) + (y + INT_MIN)
    ELSE IF y < 0 /\ x < INT_MIN - y THEN (x - INT_MIN) + (y - INT_MIN)
    ELSE x + y

\* a bug: the 128-bit _mm_set1_epi32, four lanes
mm_set1_epi32(a) == [l \in 1..4 |-> a]

\* a bug: a only in the low lane, as _mm256_castsi128_si256(_mm_cvtsi32_si128(a))
mm256_low_epi32(a) == [l \in Lanes |-> IF l = 1 THEN a ELSE 0]

\* _mm256_set1_epi32(a): a in every lane
mm256_set1_epi32(a) == [l \in Lanes |-> a]

\* x is below y as unsigned 32-bit values
ULess(x, y) == IF (x >= 0) = (y >= 0) THEN x < y ELSE x >= 0

\* a bug: _mm256_add_epi64, four 64-bit sums: the carry out of an odd lane
\* goes into the even lane above it
mm256_add_epi64(a, b) ==
    [l \in DOMAIN a |->
        IF l % 2 = 1 THEN Add32(a[l], b[l])
        ELSE Add32(Add32(a[l], b[l]),
                   IF ULess(Add32(a[l - 1], b[l - 1]), a[l - 1]) THEN 1 ELSE 0)]

\* a bug: the 128-bit _mm_add_epi32 on the low half, the high half passed on
mm_add_epi32_low(a, b) ==
    [l \in DOMAIN a |-> IF l <= 4 THEN Add32(a[l], b[l]) ELSE a[l]]

\* _mm256_add_epi32(a, b): lane l of the result is the 32-bit sum of lanes l
mm256_add_epi32(a, b) == [l \in DOMAIN a |-> Add32(a[l], b[l])]

\* a bug: i <= 1000000000
LoopCondInclusive(n) == n <= LoopCount

\* a bug: i < 1000000000 - 1
LoopCondEarly(n) == n < LoopCount - 1

\* a bug: a test that never fails, as i < 10000000000 is for an int
LoopCondAlways(n) == n <= INT_MAX

\* the loop test, i < 1000000000
LoopCond(n) == n < LoopCount

\* a bug: the increment left out
IncrNone(n) == n

\* i++ (on an int below INT_MAX)
Incr(n) == n + 1

-----------------------------------------------------------------------------
(* Runs of iterations *)

Strides == {Stride^k : k \in 1..8}

\* s iterations from counter n all pass the loop test (which is monotone in
\* the counter), with Tail more to go, and nothing overflows
CanSkipBy(n, s) ==
    /\ n >= Head
    /\ n <= INT_MAX - s - Tail
    /\ LoopCond(n)
    /\ LoopCond(n + s + Tail - 1)

CanSkip(n) == \E s \in Strides : CanSkipBy(n, s)

SkipLen(n) ==
    CHOOSE s \in Strides :
        /\ CanSkipBy(n, s)
        /\ \A t \in Strides : CanSkipBy(n, t) => t <= s

-----------------------------------------------------------------------------
(* PerformHeavyLoad *)

\* after __m256i vec = _mm256_set1_epi32(1) and int i = 0
Init ==
    /\ pc = "iterating"
    /\ i = 0
    /\ vec = mm256_set1_epi32(1)
    /\ adds = 0
    /\ outside \in [Cells -> {0, 1}]

\* a bug: the iteration also stores a lane to memory outside the function
LoopIterStore ==
    /\ pc = "iterating"
    /\ LoopCond(i)
    /\ ~CanSkip(i)
    /\ i < INT_MAX
    /\ vec' = mm256_add_epi32(vec, mm256_set1_epi32(1))
    /\ adds' = adds + 1
    /\ i' = Incr(i)
    /\ pc' = pc
    /\ outside' = [outside EXCEPT ![1] = vec'[1] % 2]

\* one iteration: the test, the body, i++
LoopIter ==
    /\ pc = "iterating"
    /\ LoopCond(i)
    /\ ~CanSkip(i)
    /\ IF i = INT_MAX
       THEN \* i++ overflows a signed int: undefined behaviour
            /\ pc' = "undefined"
            /\ UNCHANGED <<i, vec, adds>>
       ELSE /\ vec' = mm256_add_epi32(vec, mm256_set1_epi32(1))
            /\ adds' = adds + 1
            /\ i' = Incr(i)
            /\ pc' = pc
    /\ UNCHANGED outside

\* SkipLen(i) iterations in one step
LoopSkip ==
    /\ pc = "iterating"
    /\ CanSkip(i)
    /\ LET s == SkipLen(i) IN
        /\ vec' = mm256_add_epi32(vec, mm256_set1_epi32(s))
        /\ adds' = adds + s
        /\ i' = i + s
    /\ UNCHANGED <<pc, outside>>

\* the loop test fails: the function returns
Return ==
    /\ pc = "iterating"
    /\ ~LoopCond(i)
    /\ pc' = "returned"
    /\ UNCHANGED <<i, vec, adds, outside>>

Next == LoopIter \/ LoopSkip \/ Return

Spec == Init /\ [][Next]_vars

\* the calling thread keeps running the loop
FairSpec == Spec /\ WF_vars(Next)

-----------------------------------------------------------------------------
(* A run of iterations is the iterations it stands for *)

RECURSIVE IterateBody(_, _)
\* the loop body applied k times to accumulator v
IterateBody(v, k) ==
    IF k = 0 THEN v
    ELSE IterateBody(mm256_add_epi32(v, mm256_set1_epi32(1)), k - 1)

\* in every state, a run of k <= Stride iterations is one add of k
SkipIsIteration ==
    \A k \in 0..Stride :
        IterateBody(vec, k) = mm256_add_epi32(vec, mm256_set1_epi32(k))

-----------------------------------------------------------------------------
(* The add on its own, over chosen register contents *)

\* lane contents: 0xFFFFFFFF, 0x7FFFFFFF and 0x0000FFFF, at the edges of the
\* 32-bit range and of its low half, and the 1 the function starts from
SampleLanes == {-1, INT_MAX, 65535, 1}

InitAdd ==
    /\ pc = "add_in"
    /\ i = 0
    /\ vec \in [Lanes -> SampleLanes]
    /\ adds = 0
    /\ outside = [c \in Cells |-> 0]

\* vec = _mm256_add_epi32(vec, _mm256_set1_epi32(1)), once
ProbeAdd ==
    /\ pc = "add_in"
    /\ vec' = mm256_add_epi32(vec, mm256_set1_epi32(1))
    /\ adds' = adds + 1
    /\ pc' = "add_out"
    /\ UNCHANGED <<i, outside>>

SpecAdd == InitAdd /\ [][ProbeAdd]_vars

-----------------------------------------------------------------------------
(* The claims *)

\* C1: every call terminates.  Each step of the loop advances i by exactly
\* the number of iterations it performs (1 for an iteration) and never past
\* 1,000,000,000; a call that has not returned can always take a step; and,
\* the thread being run, the returned state is eventually reached.
C1_Terminates ==
    /\ [][pc = "iterating" /\ pc' = "iterating" =>
            /\ i' > i
            /\ i' - i = adds' - adds
            /\ i' <= 1000000000]_vars
    /\ [](pc = "iterating" => ENABLED Next)
    /\ <>(pc = "returned")

C1_Witness == pc = "returned" /\ i = 1000000000

\* C2: when the function has returned, the counter incremented alongside
\* each vector add is exactly 1,000,000,000.
C2_AddCount == pc = "returned" => adds = 1000000000

C2_Witness == pc = "returned" /\ adds = 1000000000

\* C3: when the function has returned, each of the 8 lanes of the
\* accumulator is 1,000,000,001.
C3_FinalLanes ==
    pc = "returned" =>
        /\ DOMAIN vec = 1..8
        /\ \A l \in 1..8 : vec[l] = 1000000001

C3_Witness == pc = "returned" /\ vec[1] = 1000000001 /\ vec[8] = 1000000001

\* C4: no step of the function changes the memory outside it.
C4_NoSideEffect == [][outside' = outside]_vars

C4_Witness ==
    /\ pc = "returned"
    /\ adds > 0
    /\ outside[1] = 1
    /\ outside[2] = 0

\* C5: the function never fails: no step is undefined or an error, and a
\* call that has not returned normally is never stuck.
C5_NeverFails ==
    /\ pc \in {"iterating", "returned"}
    /\ pc # "returned" => ENABLED Next

C5_Witness == pc = "returned" /\ i = adds /\ adds > Head + Tail

\* the 32-bit pattern w is the pattern v plus one modulo 2^32, told by their
\* 16-bit halves
IsSucc32(v, w) ==
    /\ w \in INT_MIN..INT_MAX
    /\ Lo16(w) = (Lo16(v) + 1) % 65536
    /\ Hi16(w) = (Hi16(v) + (IF Lo16(v) = 65535 THEN 1 ELSE 0)) % 65536

\* C6: the add of the loop body takes every lane v, by itself, to
\* (v + 1) mod 2^32: a lane of 2^32 - 1 becomes 0, and no lane's new value
\* depends on another lane.
C6_LaneWiseWrap ==
    [][pc = "add_in" /\ pc' = "add_out" =>
        /\ DOMAIN vec' = DOMAIN vec
        /\ \A l \in Lanes :
            /\ IsSucc32(vec[l], vec'[l])
            /\ vec[l] = -1 => vec'[l] = 0]_vars

\* lanes of 2^32 - 1 and of 2^31 - 1 side by side, added to
C6_Witness ==
    /\ pc = "add_out"
    /\ vec[1] = 0
    /\ vec[2] = INT_MIN
    /\ vec[3] = 65536
    /\ vec[4] = 0
    /\ vec[5] = 2

\* C7: in every state the accumulator has exactly 8 lanes, each a 32-bit
\* value.
C7_VectorWidth ==
    /\ DOMAIN vec = 1..8
    /\ \A l \in DOMAIN vec : vec[l] \in INT_MIN..INT_MAX

C7_Witness == pc = "iterating" /\ adds = Head /\ Cardinality(DOMAIN vec) = 8

\* C8: the control states are iterating and returned; no step leaves
\* returned (so no add follows it); returned is not reached with fewer than
\* 1,000,000,000 adds performed.
C8_TwoStates ==
    /\ [](pc \in {"iterating", "returned"})
    /\ [](pc = "returned" => adds >= 1000000000)
    /\ [][pc # "returned"]_vars

C8_Witness == pc = "returned" /\ adds >= 1000000000 /\ ~ENABLED Next

\* C9: at every loop head, with i adds performed, 0 <= i <= 1,000,000,000
\* and every lane is (1 + i) mod 2^32, which is 1 + i; so the lanes are all
\* equal, and are 1 before the first add.
C9_LoopInvariant ==
    /\ i = adds
    /\ 0 <= i /\ i <= 1000000000
    /\ \A l \in DOMAIN vec : vec[l] = 1 + i
    /\ \A l, m \in DOMAIN vec : vec[l] = vec[m]
    /\ adds = 0 => \A l \in DOMAIN vec : vec[l] = 1

C9_Witness ==
    /\ pc = "iterating"
    /\ 0 < i /\ i < 1000000000
    /\ CanSkip(i)
    /\ vec[8] = 1 + i

\* C10: no 32-bit overflow occurs: every lane is at most 1,000,000,001 and
\* the counter at most 1,000,000,000, both below 2^31 - 1.
C10_NoOverflow ==
    /\ \A l \in DOMAIN vec : 1 <= vec[l] /\ vec[l] <= 1000000001 /\ vec[l] < INT_MAX
    /\ 0 <= i /\ i <= 1000000000 /\ i < INT_MAX

C10_Witness == pc = "iterating" /\ i = 1000000000 /\ vec[1] = 1000000001

====
